---- MODULE Spec2Model ----
(***************************************************************************)
(* Model of the loop wrappers generated by numba/npyufunc/wrappers.py:     *)
(* the elementwise wrapper (build_ufunc_wrapper) in native and object      *)
(* mode, the generalized wrapper (_GufuncWrapper / _GufuncObjectWrapper)   *)
(* and the object-mode call adapter (_prepare_call_to_object_mode).        *)
(* One behaviour is one call of one generated wrapper; every action is one *)
(* group of emitted instructions of that wrapper.                          *)
(***************************************************************************)
EXTENDS Integers, Sequences, FiniteSets, TLC

VARIABLES
    lib,           \* libcurand: the class, its instances, the running call
    gen,           \* _GufuncWrapper.build: state of the wrapper generation
    self,          \* the invocation whose registers are current
    others,        \* saved contexts of the other invocations in flight
    args,          \* args table: base address of every argument
    mode,          \* which wrapper was generated: ufunc/gufunc, native/object
    dims,          \* dims table: iteration count, then core-dimension sizes
    steps,         \* steps table: one step per argument, then core strides
    kfail,         \* iterations on which the kernel's status is an error
    pc,            \* position in the generated code
    path,          \* native elementwise: "fast", "slow", "none" at entry
    index,         \* for_range loop index
    offsets,       \* per-input byte cursors
    store_offset,  \* output byte cursor
    outbuf,        \* bytes of the output memory, by address
    elems,         \* values/handles loaded for the current iteration
    status,        \* status of the last kernel call: "none", "ok", "error"
    retval,        \* value/handle returned by the last kernel call
    gil,           \* how many times this invocation holds the runtime lock
    pending,       \* host error indicator
    saved,         \* error indicator fetched by err_push
    slots,         \* adapter: ndarray_pointers
    argk,          \* adapter: index of the argument being converted
    error,         \* adapter: error_pointer / loop-body error flag
    views,         \* generalized wrapper: array views of the current iteration
    nextid,        \* next fresh handle identity
    hist           \* observation log (calls, stores, releases, signals)

vars == <<lib, gen, self, others, args, mode, dims, steps, kfail, pc, path, index,
          offsets, store_offset, outbuf, elems, status, retval, gil, pending,
          saved, slots, argk, error, views, nextid, hist>>

----------------------------------------------------------------------------
(* Bounds *)
MaxN == 3

(* Signature of the wrapped kernel: two inputs and one output, all of one  *)
(* element type.                                                           *)
signature_args == <<"u2", "u2">>
nin == Len(signature_args)
nargs == nin + 1
Inputs == 1..nin
out == nargs

(* Element layout: abisize bytes per element, each byte in 0..ByteMod-1.   *)
abisize == 2
ByteMod == 4

RECURSIVE Pow(_, _)
Pow(b, e) == IF e = 0 THEN 1 ELSE b * Pow(b, e - 1)

ValMod == Pow(ByteMod, abisize)

InStepSet == {0 - abisize, 0, abisize, 2 * abisize}
OutStepSet == {0 - abisize, 0, 1, abisize, 2 * abisize}
MaxStep == 2 * abisize

MemLo == 0 - (MaxN * MaxStep)
MemHi == MaxN * MaxStep + abisize

NULL == [id |-> 0, val |-> 0]
NoErr == <<"none", 0>>
PriorErr == <<"prior", 0>>

----------------------------------------------------------------------------
(* Generalized wrapper: the shape signature and the tables it indexes.     *)
sin == << <<"m", "n">>, <<"n">>, <<>> >>
sout == << <<"m">> >>
gu_syms == sin \o sout
gu_nargs == Len(gu_syms)
gu_out == gu_nargs

GuCoreDims == <<2, 3>>
GuOuterSteps == {0, 2 * abisize}
GuCoreStrides == <<3 * abisize, abisize, abisize, abisize>>
GuStepsTables ==
    {o \o GuCoreStrides : o \in [1..gu_nargs -> GuOuterSteps]}

(* content of a stack slot that was never stored to *)
UNDEF == [id |-> 0 - 2, val |-> 0]
WILD == [id |-> 0 - 1, val |-> 0]

----------------------------------------------------------------------------
(* Memory.  Input buffers are read-only data of the caller.                *)
InByte(a, addr) == (3 * addr + a + ((addr * addr) \div 4)) % ByteMod

RECURSIVE unpack_value(_, _, _)
unpack_value(mem, addr, k) ==
    IF k = 0 THEN 0
    ELSE mem[addr] + ByteMod * unpack_value(mem, addr + 1, k - 1)

RECURSIVE pack_value(_, _, _, _)
pack_value(mem, addr, value, k) ==
    IF k = 0 THEN mem
    ELSE pack_value([mem EXCEPT ![addr] = value % ByteMod],
                    addr + 1, value \div ByteMod, k - 1)

InMem(a) == [addr \in MemLo..(MemHi + abisize) |-> InByte(a, addr)]

(* UArrayArg *)
is_unit_strided(a) == abisize = steps[a]

load_direct(a, byteoffset) ==
    unpack_value(InMem(a), args[a] + byteoffset, abisize)

load_aligned(a, ind) ==
    unpack_value(InMem(a), args[a] + ind * abisize, abisize)

store_direct(mem, value, byteoffset) ==
    pack_value(mem, args[out] + byteoffset, value, abisize)

store_aligned(mem, value, ind) ==
    pack_value(mem, args[out] + ind * abisize, value, abisize)

(* build_ufunc_wrapper: the flag the native wrapper branches on *)
unit_strided == \A a \in Inputs : is_unit_strided(a)

(* The scalar kernel: a status and a value. *)
func_value(es) == (es[1] + 2 * es[2]) % ValMod

func_status(i) == IF i \in kfail THEN "error" ELSE "ok"

----------------------------------------------------------------------------
Modes == {"ufunc_native", "ufunc_obj", "gufunc_native", "gufunc_obj"}

(* loopcount = builder.load(arg_dims) *)
loopcount == dims[1]

objmode == mode \in {"ufunc_obj", "gufunc_obj"}

(* _GufuncWrapper.build: symbol table *)
RECURSIVE flatten(_)
flatten(grp) == IF grp = <<>> THEN <<>> ELSE Head(grp) \o flatten(Tail(grp))

RECURSIVE first_occurrences(_, _)
first_occurrences(syms, acc) ==
    IF syms = <<>> THEN acc
    ELSE first_occurrences(Tail(syms),
            IF \E i \in 1..Len(acc) : acc[i] = Head(syms) THEN acc
            ELSE Append(acc, Head(syms)))

sym_order == first_occurrences(flatten(sin), <<>>)

(* sym_map[s] = len(sym_map) at the first occurrence of s in self.sin *)
sym_map(s) == (CHOOSE i \in 1..Len(sym_order) : sym_order[i] = s) - 1

(* sym_dim[s] = dims[sym_map[s] + 1]; tables are 1-based here *)
sym_dim(s) == dims[(sym_map(s) + 1) + 1]

(* GUArrayArg *)
as_scalar(i) == gu_syms[i] = <<>>

ndim(i) == IF as_scalar(i) THEN 1 ELSE Len(gu_syms[i])

RECURSIVE step_offset(_)
step_offset(i) ==
    IF i = 1 THEN Len(sin) + Len(sout)
    ELSE step_offset(i - 1)
         + (IF as_scalar(i - 1) THEN 0 ELSE ndim(i - 1))

core_step(i) == steps[i]

gu_strides(i) == [j \in 1..ndim(i) |-> steps[step_offset(i) + (j - 1) + 1]]

gu_shape(i) == [j \in 1..ndim(i) |-> sym_dim(gu_syms[i][j])]

(* variant: the view is moved by the element size, not by core_step *)
get_array_at_offset_itemstep(i, ind) ==
    [data    |-> args[i] + abisize * ind,
     shape   |-> IF as_scalar(i) THEN <<1>> ELSE gu_shape(i),
     strides |-> IF as_scalar(i) THEN <<0>> ELSE gu_strides(i)]

get_array_at_offset(i, ind) ==
    [data    |-> args[i] + core_step(i) * ind,
     shape   |-> IF as_scalar(i) THEN <<1>> ELSE gu_shape(i),
     strides |-> IF as_scalar(i) THEN <<0>> ELSE gu_strides(i)]

(* what the generalized kernel leaves in the first output element *)
gu_value(ind) == (ind + 1) % ValMod

----------------------------------------------------------------------------
(* _GufuncWrapper.build, generation time: the symbol table and the         *)
(* argument descriptors, for any shape signature.  Indices into the dims   *)
(* and steps tables are the 0-based indices the code computes.             *)

MaxDim == 2
Symbols == {"m", "n", "p"}
GenNin == {1, 2}
GenNout == {1}

RECURSIVE SeqsUpTo(_, _)
SeqsUpTo(S, n) ==
    IF n = 0 THEN {<<>>}
    ELSE SeqsUpTo(S, n - 1)
         \cup {Append(q, x) : q \in {r \in SeqsUpTo(S, n - 1) :
                                        Len(r) = n - 1}, x \in S}

SymSeqs == SeqsUpTo(Symbols, MaxDim)

Groups(ns) == UNION {[1..n -> SymSeqs] : n \in ns}

EmptyMap == [s \in {} |-> 0]

(* variant: every occurrence of a symbol binds it again *)
RECURSIVE build_sym_map_rebinding(_, _)
build_sym_map_rebinding(syms, m) ==
    IF syms = <<>> THEN m
    ELSE build_sym_map_rebinding(
            Tail(syms),
            [s \in DOMAIN m \cup {Head(syms)} |->
                IF s = Head(syms) THEN Cardinality(DOMAIN m) ELSE m[s]])

(* for syms in self.sin: for s in syms:                                    *)
(*     if s not in sym_map: sym_map[s] = len(sym_map)                      *)
RECURSIVE build_sym_map(_, _)
build_sym_map(syms, m) ==
    IF syms = <<>> THEN m
    ELSE build_sym_map(
            Tail(syms),
            IF Head(syms) \in DOMAIN m THEN m
            ELSE [s \in DOMAIN m \cup {Head(syms)} |->
                     IF s = Head(syms) THEN Cardinality(DOMAIN m) ELSE m[s]])

(* sym_dim[s] = load(gep(arg_dims, i + 1)): the dims index it reads *)
build_sym_dim(m) == [s \in DOMAIN m |-> m[s] + 1]

GenStart(si, so) ==
    [sin |-> si, sout |-> so, pc |-> "sym_map", sym_map |-> EmptyMap,
     sym_dim |-> EmptyMap, i |-> 0, step_offset |-> 0, arrays |-> <<>>]

(* variant: a scalar argument advances the running stride offset too *)
GUArrayArg_advancing(g) ==
    LET syms == (g.sin \o g.sout)[g.i + 1]
        scalar == syms = <<>>
        nd == IF scalar THEN 1 ELSE Len(syms)
    IN  IF \E k \in DOMAIN syms : syms[k] \notin DOMAIN g.sym_dim
        THEN [g EXCEPT !.pc = "failed"]
        ELSE [g EXCEPT
                !.arrays = Append(@,
                    [as_scalar |-> scalar, ndim |-> nd, core_step |-> g.i,
                     data |-> g.i,
                     strides |-> IF scalar THEN <<>>
                                 ELSE [j \in 1..nd |->
                                          g.step_offset + (j - 1)],
                     shape |-> [k \in DOMAIN syms |-> g.sym_dim[syms[k]]]]),
                !.step_offset = @ + nd,
                !.i = @ + 1]

(* variant: a symbol without a bound size reads dims[0] instead of failing *)
GUArrayArg_default(g) ==
    LET syms == (g.sin \o g.sout)[g.i + 1]
        scalar == syms = <<>>
        nd == IF scalar THEN 1 ELSE Len(syms)
    IN  [g EXCEPT
            !.arrays = Append(@,
                [as_scalar |-> scalar, ndim |-> nd, core_step |-> g.i,
                 data |-> g.i,
                 strides |-> IF scalar THEN <<>>
                             ELSE [j \in 1..nd |-> g.step_offset + (j - 1)],
                 shape |-> [k \in DOMAIN syms |->
                              IF syms[k] \in DOMAIN g.sym_dim
                              THEN g.sym_dim[syms[k]] ELSE 0]]),
            !.step_offset = IF scalar THEN @ ELSE @ + nd,
            !.i = @ + 1]

(* ary = GUArrayArg(..., i, step_offset, typ, sym, sym_dim);               *)
(* if not ary.as_scalar: step_offset += ary.ndim.   sym_dim[s] of a symbol *)
(* that is not a key raises KeyError out of build.                         *)
GUArrayArg(g) ==
    LET syms == (g.sin \o g.sout)[g.i + 1]
        scalar == syms = <<>>
        nd == IF scalar THEN 1 ELSE Len(syms)
    IN  IF \E k \in DOMAIN syms : syms[k] \notin DOMAIN g.sym_dim
        THEN [g EXCEPT !.pc = "failed"]
        ELSE [g EXCEPT
                !.arrays = Append(@,
                    [as_scalar |-> scalar, ndim |-> nd, core_step |-> g.i,
                     data |-> g.i,
                     strides |-> IF scalar THEN <<>>
                                 ELSE [j \in 1..nd |->
                                          g.step_offset + (j - 1)],
                     shape |-> [k \in DOMAIN syms |-> g.sym_dim[syms[k]]]]),
                !.step_offset = IF scalar THEN @ ELSE @ + nd,
                !.i = @ + 1]

(* one step of build *)
gen_step(g) ==
    IF g.pc = "sym_map"
    THEN [g EXCEPT !.sym_map = build_sym_map(flatten(g.sin), EmptyMap),
                   !.pc = "sym_dim"]
    ELSE IF g.pc = "sym_dim"
    THEN [g EXCEPT !.sym_dim = build_sym_dim(g.sym_map),
                   !.step_offset = Len(g.sin) + Len(g.sout),
                   !.pc = "arrays"]
    ELSE IF g.pc = "arrays" /\ g.i < Len(g.sin) + Len(g.sout)
    THEN GUArrayArg(g)
    ELSE IF g.pc = "arrays"
    THEN [g EXCEPT !.pc = "done"]
    ELSE g

RECURSIVE generate(_)
generate(g) == IF g.pc \in {"done", "failed"} THEN g ELSE generate(gen_step(g))

----------------------------------------------------------------------------
(* numbapro/cudalib/curand/api.py: class libcurand *)

MaxNew == 3

CURAND_STATUS_SUCCESS == 0
CURAND_STATUS_VERSION_MISMATCH == 100
CURAND_STATUS_LAUNCH_FAILURE == 201

Statuses ==
    {CURAND_STATUS_SUCCESS, CURAND_STATUS_VERSION_MISMATCH,
     CURAND_STATUS_LAUNCH_FAILURE}

(* the class attributes that are ctype_function declarations *)
CtypeFunctions ==
    {"curandGetVersion", "curandCreateGenerator", "curandDestroyGenerator"}

(* what override_path can name: nothing (the default library), a library   *)
(* that exports every function, one that lacks some, a file that does not  *)
(* open                                                                    *)
Paths == {"None", "full", "partial", "missing"}

Opens(override_path) == override_path # "missing"

Exports(dll) ==
    IF dll = "partial" THEN {"curandGetVersion"} ELSE CtypeFunctions

None == 0

LibStart ==
    [singleton |-> None,     \* libcurand.__singleton
     insts     |-> <<>>,     \* created instances: dll, bound wrappers
     pc        |-> "idle",   \* position in __new__ / __initialize
     path      |-> "None",   \* override_path of the running call
     dll       |-> "None",   \* local dll
     inst      |-> None,     \* local inst
     todo      |-> {},       \* names __initialize has still to visit
     news      |-> 0,        \* constructions started
     opened    |-> 0,        \* successful dllopener calls
     returned  |-> <<>>,     \* instance returned by every call that returned
     raised    |-> <<>>,     \* exception of every call that raised
     last      |-> <<>>]     \* the last attribute call and its outcome

(* check_error: raise CuRandError(status) unless CURAND_STATUS_SUCCESS *)
check_error(st) ==
    IF st # CURAND_STATUS_SUCCESS THEN "CuRandError" ELSE "return"

(* the attribute `name` of instance i: the wrapper set by __initialize, or *)
(* the class attribute (the ctype_function declaration) behind it          *)
attribute(l, i, name) ==
    IF name \in l.insts[i].bound THEN "wrapped" ELSE "ctype_function"

----------------------------------------------------------------------------
EmptyHist ==
    [calls     |-> <<>>,  \* iteration of every kernel invocation, in order
     nullcalls |-> {},    \* iterations whose kernel call got a null handle
     stores    |-> {},    \* <<iteration, byte offset>> of every element store
     loads     |-> {},    \* <<iteration, argument, byte offset>> of every load
     aligned   |-> {},    \* arguments accessed by load_aligned/store_aligned
     signals   |-> <<>>,  \* <<source, iteration>> of every error raised
     touched   |-> {},    \* <<interaction, lock held>> per host interaction
     made      |-> {},    \* <<iteration, argument, id>> of constructed handles
     decrefs   |-> <<>>,  \* one record per pyapi.decref, in order
     before    |-> NoErr, \* error indicator before the last kernel call
     acquired  |-> 0,     \* number of gil_ensure
     released  |-> 0]     \* number of gil_release

InitUfunc ==
    /\ mode \in {"ufunc_native", "ufunc_obj"}
    /\ dims \in {<<n>> : n \in 0..MaxN}
    /\ steps \in [1..nargs -> InStepSet \cup OutStepSet]
    /\ \A a \in Inputs : steps[a] \in InStepSet
    /\ steps[out] \in OutStepSet
    \* object mode has the general path only: one common input step
    /\ mode = "ufunc_obj" => \A a \in Inputs : steps[a] = steps[1]
    /\ slots = <<>>

InitGufunc ==
    /\ mode \in {"gufunc_native", "gufunc_obj"}
    /\ dims \in {<<n>> \o GuCoreDims : n \in 0..MaxN}
    /\ steps \in GuStepsTables
    /\ slots = [k \in 1..gu_nargs |-> UNDEF]

Init ==
    /\ InitUfunc \/ InitGufunc
    /\ lib = LibStart
    /\ gen = generate(GenStart(sin, sout))
    /\ self = 1
    /\ others = <<>>
    /\ args = [a \in 1..gu_nargs |-> 0]
    /\ kfail \in SUBSET (0..(loopcount - 1))
    /\ pc = "entry"
    /\ path = "none"
    /\ index = 0
    /\ offsets = [a \in Inputs |-> 0]
    /\ store_offset = 0
    /\ outbuf = [addr \in MemLo..MemHi |-> 0]
    /\ elems = <<>>
    /\ status = "none"
    /\ retval = IF objmode THEN NULL ELSE 0
    /\ gil = 0
    /\ pending \in {NoErr, PriorErr}
    /\ saved = NoErr
    /\ argk = 0
    /\ error = FALSE
    /\ views = <<>>
    /\ nextid = 1
    /\ hist = EmptyHist

----------------------------------------------------------------------------
(* pyapi.gil_ensure / pyapi.gil_release *)
gil_ensure(next) ==
    /\ \A t \in DOMAIN others : others[t].gil = 0
    /\ gil' = gil + 1
    /\ hist' = [hist EXCEPT !.acquired = @ + 1]
    /\ pc' = next

(* variant: the release is recorded but the lock stays taken *)
gil_release_keep(next) ==
    /\ gil' = gil
    /\ hist' = [hist EXCEPT !.released = @ + 1]
    /\ pc' = next

gil_release(next) ==
    /\ gil' = gil - 1
    /\ hist' = [hist EXCEPT !.released = @ + 1]
    /\ pc' = next

Touch(h, what) == [h EXCEPT !.touched = @ \cup {<<what, gil > 0>>}]

----------------------------------------------------------------------------
(* build_ufunc_wrapper, native mode *)

(* entry block: descriptors, zeroed cursors, the objmode / unit_strided    *)
(* dispatch                                                                *)
UfuncEntryNative ==
    /\ pc = "entry" /\ mode = "ufunc_native"
    /\ path' = IF unit_strided THEN "fast" ELSE "slow"
    /\ pc' = "head"
    /\ UNCHANGED <<lib, gen, self, others, args, mode, dims, steps,
                   kfail, index, offsets,
                   store_offset, outbuf, elems, status, retval, gil, pending,
                   saved, slots, argk, error, views, nextid, hist>>

(* variant: the loop body runs once before the count is tested *)
ForRangeHead_bodyfirst ==
    /\ pc = "head"
    /\ pc' = IF index < loopcount \/ index = 0 THEN "body" ELSE "after_loop"
    /\ UNCHANGED <<lib, gen, self, others, args, mode, dims, steps,
                   kfail, path, index, offsets,
                   store_offset, outbuf, elems, status, retval, gil, pending,
                   saved, slots, argk, error, views, nextid, hist>>

(* cgutils.for_range: loop test *)
ForRangeHead ==
    /\ pc = "head"
    /\ pc' = IF index < loopcount THEN "body" ELSE "after_loop"
    /\ UNCHANGED <<lib, gen, self, others, args, mode, dims, steps,
                   kfail, path, index, offsets,
                   store_offset, outbuf, elems, status, retval, gil, pending,
                   saved, slots, argk, error, views, nextid, hist>>

(* build_fast_loop_body.load / build_slow_loop_body.load *)
NativeLoad ==
    /\ pc = "body" /\ mode = "ufunc_native"
    /\ elems' = [a \in Inputs |->
                    IF path = "fast" THEN load_aligned(a, index)
                    ELSE load_direct(a, offsets[a])]
    /\ hist' = [hist EXCEPT
                  !.loads = @ \cup {<<index, a,
                                      IF path = "fast" THEN index * abisize
                                      ELSE offsets[a]>> : a \in Inputs},
                  !.aligned = IF path = "fast" THEN @ \cup Inputs ELSE @]
    /\ pc' = "call"
    /\ UNCHANGED <<lib, gen, self, others, args, mode, dims, steps,
                   kfail, path, index, offsets,
                   store_offset, outbuf, status, retval, gil, pending, saved,
                   slots, argk, error, views, nextid>>

(* _build_ufunc_loop_body: call_function and the branch on status.is_ok *)
NativeCall ==
    /\ pc = "call" /\ mode = "ufunc_native"
    /\ status' = func_status(index)
    /\ retval' = func_value(elems)
    /\ hist' = [hist EXCEPT !.calls = Append(@, index)]
    /\ pc' = IF func_status(index) = "ok" THEN "store" ELSE "err_gil"
    /\ UNCHANGED <<lib, gen, self, others, args, mode, dims, steps,
                   kfail, path, index, offsets,
                   store_offset, outbuf, elems, gil, pending, saved, slots,
                   argk, error, views, nextid>>

(* variant: the store is indexed on both paths *)
NativeStore_indexed ==
    /\ pc = "store" /\ mode = "ufunc_native"
    /\ outbuf' = store_aligned(outbuf, retval, index)
    /\ hist' = [hist EXCEPT
                  !.stores = @ \cup {<<index, index * abisize>>},
                  !.aligned = IF path = "fast" THEN @ \cup {out} ELSE @]
    /\ pc' = "incr"
    /\ UNCHANGED <<lib, gen, self, others, args, mode, dims, steps,
                   kfail, path, index, offsets,
                   store_offset, elems, status, retval, gil, pending, saved,
                   slots, argk, error, views, nextid>>

(* build_fast_loop_body.store / build_slow_loop_body.store *)
NativeStore ==
    /\ pc = "store" /\ mode = "ufunc_native"
    /\ outbuf' = IF path = "fast" THEN store_aligned(outbuf, retval, index)
                 ELSE store_direct(outbuf, retval, store_offset)
    /\ hist' = [hist EXCEPT
                  !.stores = @ \cup {<<index,
                                       IF path = "fast" THEN index * abisize
                                       ELSE store_offset>>},
                  !.aligned = IF path = "fast" THEN @ \cup {out} ELSE @]
    /\ pc' = "incr"
    /\ UNCHANGED <<lib, gen, self, others, args, mode, dims, steps,
                   kfail, path, index, offsets,
                   store_offset, elems, status, retval, gil, pending, saved,
                   slots, argk, error, views, nextid>>

(* variant: the error branch raises without taking the lock *)
ErrGilEnsure_skip ==
    /\ pc = "err_gil"
    /\ pc' = "err_raise"
    /\ UNCHANGED <<lib, gen, self, others, args, mode, dims, steps,
                   kfail, path, index, offsets,
                   store_offset, outbuf, elems, status, retval, gil, pending,
                   saved, slots, argk, error, views, nextid, hist>>

(* if_error: gil = pyapi.gil_ensure() *)
ErrGilEnsure ==
    /\ pc = "err_gil"
    /\ gil_ensure("err_raise")
    /\ UNCHANGED <<lib, gen, self, others, args, mode, dims, steps,
                   kfail, path, index, offsets,
                   store_offset, outbuf, elems, status, retval, pending,
                   saved, slots, argk, error, views, nextid>>

(* variant: the error branch reports nothing to the host *)
ErrRaise_silent ==
    /\ pc = "err_raise"
    /\ hist' = Touch(hist, "raise_error")
    /\ pc' = "err_ungil"
    /\ UNCHANGED <<lib, gen, self, others, args, mode, dims, steps,
                   kfail, path, index, offsets,
                   store_offset, outbuf, elems, status, retval, gil, pending,
                   saved, slots, argk, error, views, nextid>>

(* if_error: context.call_conv.raise_error(builder, pyapi, status) *)
ErrRaise ==
    /\ pc = "err_raise"
    /\ pending' = <<"native", index>>
    /\ hist' = Touch([hist EXCEPT !.signals = Append(@, <<"native", index>>)],
                     "raise_error")
    /\ pc' = "err_ungil"
    /\ UNCHANGED <<lib, gen, self, others, args, mode, dims, steps,
                   kfail, path, index, offsets,
                   store_offset, outbuf, elems, status, retval, gil, saved,
                   slots, argk, error, views, nextid>>

(* variant: the error branch of the elementwise body leaves the loop *)
ErrGilRelease_abort ==
    /\ pc = "err_ungil"
    /\ gil_release(IF mode = "ufunc_native" THEN "after_loop" ELSE "gu_branch")
    /\ UNCHANGED <<lib, gen, self, others, args, mode, dims, steps,
                   kfail, path, index, offsets,
                   store_offset, outbuf, elems, status, retval, pending,
                   saved, slots, argk, error, views, nextid>>

(* variant: the error branch goes on without releasing the lock *)
ErrGilRelease_late ==
    /\ pc = "err_ungil"
    /\ pc' = (IF mode = "ufunc_native" THEN "incr" ELSE "gu_branch")
    /\ UNCHANGED <<lib, gen, self, others, args, mode, dims, steps,
                   kfail, path, index, offsets,
                   store_offset, outbuf, elems, status, retval, gil, pending,
                   saved, slots, argk, error, views, nextid, hist>>

(* if_error: pyapi.gil_release(gil) *)
ErrGilRelease ==
    /\ pc = "err_ungil"
    /\ gil_release(IF mode = "ufunc_native" THEN "incr" ELSE "gu_branch")
    /\ UNCHANGED <<lib, gen, self, others, args, mode, dims, steps,
                   kfail, path, index, offsets,
                   store_offset, outbuf, elems, status, retval, pending,
                   saved, slots, argk, error, views, nextid>>

(* variant: the output cursor is only advanced after a successful call *)
IncrementIndices_okonly ==
    /\ pc = "incr"
    /\ offsets' = [a \in Inputs |-> offsets[a] + steps[a]]
    /\ store_offset' = IF status = "error" THEN store_offset
                       ELSE store_offset + steps[out]
    /\ index' = index + 1
    /\ pc' = "head"
    /\ UNCHANGED <<lib, gen, self, others, args, mode, dims, steps,
                   kfail, path, outbuf, elems,
                   status, retval, gil, pending, saved, slots, argk, error,
                   views, nextid, hist>>

(* variant: every cursor is advanced by the element size *)
IncrementIndices_itemsize ==
    /\ pc = "incr"
    /\ offsets' = [a \in Inputs |-> offsets[a] + abisize]
    /\ store_offset' = store_offset + abisize
    /\ index' = index + 1
    /\ pc' = "head"
    /\ UNCHANGED <<lib, gen, self, others, args, mode, dims, steps,
                   kfail, path, outbuf, elems,
                   status, retval, gil, pending, saved, slots, argk, error,
                   views, nextid, hist>>

(* increment indices, then the for_range increment *)
IncrementIndices ==
    /\ pc = "incr"
    /\ offsets' = [a \in Inputs |-> offsets[a] + steps[a]]
    /\ store_offset' = store_offset + steps[out]
    /\ index' = index + 1
    /\ pc' = "head"
    /\ UNCHANGED <<lib, gen, self, others, args, mode, dims, steps,
                   kfail, path, outbuf, elems,
                   status, retval, gil, pending, saved, slots, argk, error,
                   views, nextid, hist>>

(* builder.ret_void() *)
RetVoid ==
    /\ pc = "ret"
    /\ pc' = "done"
    /\ UNCHANGED <<lib, gen, self, others, args, mode, dims, steps,
                   kfail, path, index, offsets,
                   store_offset, outbuf, elems, status, retval, gil, pending,
                   saved, slots, argk, error, views, nextid, hist>>

(* end of the native elementwise loops *)
NativeAfterLoop ==
    /\ pc = "after_loop" /\ mode = "ufunc_native"
    /\ pc' = "ret"
    /\ UNCHANGED <<lib, gen, self, others, args, mode, dims, steps,
                   kfail, path, index, offsets,
                   store_offset, outbuf, elems, status, retval, gil, pending,
                   saved, slots, argk, error, views, nextid, hist>>

(* pyapi.err_push(keep_new=True) on leaving the block: an error raised     *)
(* inside the block is kept, otherwise the fetched indicator is restored   *)
err_pop(now, fetched) == IF now # NoErr THEN now ELSE fetched

----------------------------------------------------------------------------
(* What a boxed-signature kernel call leaves in the host error indicator.  *)
(* A raising kernel sets its own error.  A kernel that runs while an       *)
(* earlier error is still visible in the indicator (it was not pushed      *)
(* aside) executes against that live state and may consume it.             *)
kernel_indicator(visible, raised, ind, consumed) ==
    IF raised THEN <<"kernel", ind>>
    ELSE IF consumed THEN NoErr
    ELSE visible

Consumable(visible) == IF visible = NoErr THEN {FALSE} ELSE BOOLEAN

(* pyapi.decref: one log record per call *)
Decref(h, slot, obj, assigned) ==
    Touch([h EXCEPT !.decrefs =
              Append(@, [it |-> index, slot |-> slot, id |-> obj.id,
                         assigned |-> assigned])],
          "decref")

RECURSIVE DecrefAll(_, _, _, _)
DecrefAll(h, objs, k, upto) ==
    IF k > Len(objs) THEN h
    ELSE DecrefAll(Decref(h, k, objs[k], k <= upto), objs, k + 1, upto)

----------------------------------------------------------------------------
(* build_ufunc_wrapper, object mode *)

(* if objmode: gil = pyapi.gil_ensure() *)
UfuncEntryObj ==
    /\ pc = "entry" /\ mode = "ufunc_obj"
    /\ gil_ensure("head")
    /\ UNCHANGED <<lib, gen, self, others, args, mode, dims, steps,
                   kfail, path, index, offsets,
                   store_offset, outbuf, elems, status, retval, pending,
                   saved, slots, argk, error, views, nextid>>

(* build_obj_loop_body.load: load_direct, then from_native_value per       *)
(* argument; a failed boxing yields NULL and sets the host error           *)
ObjLoad ==
    /\ pc = "body" /\ mode = "ufunc_obj"
    /\ \E boxfail \in SUBSET Inputs :
        /\ elems' = [a \in Inputs |->
                        IF a \in boxfail THEN NULL
                        ELSE [id |-> nextid + a - 1,
                              val |-> load_direct(a, offsets[a])]]
        /\ pending' = IF boxfail = {} THEN pending ELSE <<"box", index>>
        /\ hist' = Touch([hist EXCEPT
                  !.loads = @ \cup {<<index, a, offsets[a]>> : a \in Inputs},
                  !.made = @ \cup {<<index, a, nextid + a - 1>> :
                                       a \in Inputs \ boxfail},
                  !.signals = IF boxfail = {} THEN @
                              ELSE Append(@, <<"box", index>>)],
                  "from_native_value")
    /\ nextid' = nextid + nin
    /\ pc' = "err_push"
    /\ UNCHANGED <<lib, gen, self, others, args, mode, dims, steps,
                   kfail, path, index, offsets,
                   store_offset, outbuf, status, retval, gil, saved, slots,
                   argk, error, views>>

(* pyapi.err_push(keep_new=True), entry: err_fetch *)
ErrPush ==
    /\ pc = "err_push"
    /\ saved' = pending
    /\ pending' = NoErr
    /\ hist' = Touch([hist EXCEPT !.before = pending], "err_fetch")
    /\ pc' = "obj_call"
    /\ UNCHANGED <<lib, gen, self, others, args, mode, dims, steps,
                   kfail, path, index, offsets,
                   store_offset, outbuf, elems, status, retval, gil, slots,
                   argk, error, views, nextid>>

(* _build_ufunc_loop_body_objmode: call_function with the boxed elems *)
ObjCall ==
    /\ pc = "obj_call"
    /\ LET nullarg == \E a \in Inputs : elems[a] = NULL
           raised == func_status(index) = "error" \/ nullarg
       IN  /\ status' = IF raised THEN "error" ELSE "ok"
           /\ retval' = IF raised THEN NULL
                        ELSE [id |-> nextid,
                              val |-> func_value([a \in Inputs |->
                                                    elems[a].val])]
           /\ \E consumed \in Consumable(pending) :
                pending' = kernel_indicator(pending, raised, index, consumed)
           /\ hist' = Touch([hist EXCEPT
                        !.calls = Append(@, index),
                        !.nullcalls = IF nullarg THEN @ \cup {index} ELSE @,
                        !.made = IF raised THEN @
                                 ELSE @ \cup {<<index, 0, nextid>>},
                        !.signals = IF raised
                                    THEN Append(@, <<"kernel", index>>)
                                    ELSE @],
                        "call_function")
    /\ nextid' = nextid + 1
    /\ pc' = "obj_decref"
    /\ UNCHANGED <<lib, gen, self, others, args, mode, dims, steps,
                   kfail, path, index, offsets,
                   store_offset, outbuf, elems, gil, saved, slots, argk,
                   error, views>>

(* for elem in elems: pyapi.decref(elem) *)
ObjDecrefArgs ==
    /\ pc = "obj_decref"
    /\ hist' = DecrefAll(hist, elems, 1, nin)
    /\ pc' = "err_pop"
    /\ UNCHANGED <<lib, gen, self, others, args, mode, dims, steps,
                   kfail, path, index, offsets,
                   store_offset, outbuf, elems, status, retval, gil, pending,
                   saved, slots, argk, error, views, nextid>>

(* pyapi.err_push(keep_new=True), exit *)
ErrPop ==
    /\ pc = "err_pop"
    /\ pending' = err_pop(pending, saved)
    /\ hist' = Touch(hist, "err_restore")
    /\ pc' = "obj_store"
    /\ UNCHANGED <<lib, gen, self, others, args, mode, dims, steps,
                   kfail, path, index, offsets,
                   store_offset, outbuf, elems, status, retval, gil, saved,
                   slots, argk, error, views, nextid>>

(* variant: the result handle is not released after the store *)
ObjStore_keepref ==
    /\ pc = "obj_store"
    /\ IF retval # NULL
       THEN /\ outbuf' = store_direct(outbuf, retval.val, store_offset)
            /\ hist' = Touch([hist EXCEPT
                                  !.stores = @ \cup {<<index, store_offset>>}],
                              "to_native_value")
       ELSE UNCHANGED <<outbuf, hist>>
    /\ pc' = "incr"
    /\ UNCHANGED <<lib, gen, self, others, args, mode, dims, steps,
                   kfail, path, index, offsets,
                   store_offset, elems, status, retval, gil, pending, saved,
                   slots, argk, error, views, nextid>>

(* variant: the result is unboxed, stored and released without the null   *)
(* test                                                                    *)
ObjStore_unchecked ==
    /\ pc = "obj_store"
    /\ outbuf' = store_direct(outbuf, retval.val, store_offset)
    /\ hist' = Decref(Touch([hist EXCEPT
                          !.stores = @ \cup {<<index, store_offset>>}],
                          "to_native_value"),
                      0, retval, TRUE)
    /\ pc' = "incr"
    /\ UNCHANGED <<lib, gen, self, others, args, mode, dims, steps,
                   kfail, path, index, offsets,
                   store_offset, elems, status, retval, gil, pending, saved,
                   slots, argk, error, views, nextid>>

(* build_obj_loop_body.store *)
ObjStore ==
    /\ pc = "obj_store"
    /\ IF retval # NULL
       THEN /\ outbuf' = store_direct(outbuf, retval.val, store_offset)
            /\ hist' = Decref(Touch([hist EXCEPT
                                  !.stores = @ \cup {<<index, store_offset>>}],
                                  "to_native_value"),
                              0, retval, TRUE)
       ELSE UNCHANGED <<outbuf, hist>>
    /\ pc' = "incr"
    /\ UNCHANGED <<lib, gen, self, others, args, mode, dims, steps,
                   kfail, path, index, offsets,
                   store_offset, elems, status, retval, gil, pending, saved,
                   slots, argk, error, views, nextid>>

(* pyapi.gil_release(gil) after the object-mode loop *)
ObjAfterLoop ==
    /\ pc = "after_loop" /\ mode = "ufunc_obj"
    /\ gil_release("ret")
    /\ UNCHANGED <<lib, gen, self, others, args, mode, dims, steps,
                   kfail, path, index, offsets,
                   store_offset, outbuf, elems, status, retval, pending,
                   saved, slots, argk, error, views, nextid>>

----------------------------------------------------------------------------
(* _GufuncWrapper.build *)

(* gen_prologue, native: nothing *)
GuPrologueNative ==
    /\ pc = "entry" /\ mode = "gufunc_native"
    /\ pc' = "head"
    /\ UNCHANGED <<lib, gen, self, others, args, mode, dims, steps,
                   kfail, path, index, offsets,
                   store_offset, outbuf, elems, status, retval, gil, pending,
                   saved, slots, argk, error, views, nextid, hist>>

(* _GufuncObjectWrapper.gen_prologue: self.gil = pyapi.gil_ensure() *)
GuPrologueObj ==
    /\ pc = "entry" /\ mode = "gufunc_obj"
    /\ gil_ensure("head")
    /\ UNCHANGED <<lib, gen, self, others, args, mode, dims, steps,
                   kfail, path, index, offsets,
                   store_offset, outbuf, elems, status, retval, pending,
                   saved, slots, argk, error, views, nextid>>

(* args = [a.get_array_at_offset(loop.index) for a in arrays] *)
GuSlice ==
    /\ pc = "body" /\ mode \in {"gufunc_native", "gufunc_obj"}
    /\ views' = [i \in 1..gu_nargs |-> get_array_at_offset(i, index)]
    /\ pc' = IF mode = "gufunc_native" THEN "gu_call" ELSE "ad_init"
    /\ UNCHANGED <<lib, gen, self, others, args, mode, dims, steps,
                   kfail, path, index, offsets,
                   store_offset, outbuf, elems, status, retval, gil, pending,
                   saved, slots, argk, error, nextid, hist>>

(* _GufuncWrapper.gen_loop_body: call_function, branch on status.is_error *)
GuNativeCall ==
    /\ pc = "gu_call"
    /\ status' = func_status(index)
    /\ error' = (func_status(index) = "error")
    /\ outbuf' = IF func_status(index) = "ok"
                 THEN pack_value(outbuf, views[gu_out].data, gu_value(index),
                                 abisize)
                 ELSE outbuf
    /\ hist' = [hist EXCEPT !.calls = Append(@, index)]
    /\ pc' = IF func_status(index) = "error" THEN "err_gil" ELSE "gu_branch"
    /\ UNCHANGED <<lib, gen, self, others, args, mode, dims, steps,
                   kfail, path, index, offsets,
                   store_offset, elems, retval, gil, pending, saved, slots,
                   argk, views, nextid>>

(* variant: the loop ignores the error flag *)
GuBranch_continue ==
    /\ pc = "gu_branch"
    /\ pc' = "head" /\ index' = index + 1
    /\ UNCHANGED <<lib, gen, self, others, args, mode, dims, steps,
                   kfail, path, offsets, store_offset,
                   outbuf, elems, status, retval, gil, pending, saved, slots,
                   argk, error, views, nextid, hist>>

(* cgutils.cbranch_or_continue(builder, error, bbreturn), else the         *)
(* for_range increment                                                     *)
GuBranch ==
    /\ pc = "gu_branch"
    /\ IF error
       THEN pc' = "epilogue" /\ index' = index
       ELSE pc' = "head" /\ index' = index + 1
    /\ UNCHANGED <<lib, gen, self, others, args, mode, dims, steps,
                   kfail, path, offsets, store_offset,
                   outbuf, elems, status, retval, gil, pending, saved, slots,
                   argk, error, views, nextid, hist>>

(* builder.branch(bbreturn) after the loop *)
GuAfterLoop ==
    /\ pc = "after_loop" /\ mode \in {"gufunc_native", "gufunc_obj"}
    /\ pc' = "epilogue"
    /\ UNCHANGED <<lib, gen, self, others, args, mode, dims, steps,
                   kfail, path, index, offsets,
                   store_offset, outbuf, elems, status, retval, gil, pending,
                   saved, slots, argk, error, views, nextid, hist>>

(* gen_epilogue, native: nothing *)
GuEpilogueNative ==
    /\ pc = "epilogue" /\ mode = "gufunc_native"
    /\ pc' = "ret"
    /\ UNCHANGED <<lib, gen, self, others, args, mode, dims, steps,
                   kfail, path, index, offsets,
                   store_offset, outbuf, elems, status, retval, gil, pending,
                   saved, slots, argk, error, views, nextid, hist>>

(* variant: the epilogue of the object-mode wrapper releases nothing *)
GuEpilogueObj_norelease ==
    /\ pc = "epilogue" /\ mode = "gufunc_obj"
    /\ pc' = "ret"
    /\ UNCHANGED <<lib, gen, self, others, args, mode, dims, steps,
                   kfail, path, index, offsets,
                   store_offset, outbuf, elems, status, retval, gil, pending,
                   saved, slots, argk, error, views, nextid, hist>>

(* _GufuncObjectWrapper.gen_epilogue: pyapi.gil_release(self.gil) *)
GuEpilogueObj ==
    /\ pc = "epilogue" /\ mode = "gufunc_obj"
    /\ gil_release("ret")
    /\ UNCHANGED <<lib, gen, self, others, args, mode, dims, steps,
                   kfail, path, index, offsets,
                   store_offset, outbuf, elems, status, retval, pending,
                   saved, slots, argk, error, views, nextid>>

----------------------------------------------------------------------------
(* _prepare_call_to_object_mode *)

(* builder.store(cgutils.true_bit, error_pointer) *)
AdInit ==
    /\ pc = "ad_init"
    /\ error' = TRUE
    /\ argk' = 1
    /\ pc' = "ad_new"
    /\ UNCHANGED <<lib, gen, self, others, args, mode, dims, steps,
                   kfail, path, index, offsets,
                   store_offset, outbuf, elems, status, retval, gil, pending,
                   saved, slots, views, nextid, hist>>

(* one round of the conversion loop: slot := NULL, obj = numba_ndarray_new,*)
(* slot := obj, error := obj is null, leave for the return block if null   *)
AdNew ==
    /\ pc = "ad_new"
    /\ \E built \in BOOLEAN :
        LET obj == IF built THEN [id |-> nextid, val |-> views[argk].data]
                   ELSE NULL
        IN  /\ slots' = [slots EXCEPT ![argk] = obj]
            /\ error' = (obj = NULL)
            /\ pending' = IF built THEN pending ELSE <<"box", index>>
            /\ hist' = Touch([hist EXCEPT
                         !.made = IF built
                                  THEN @ \cup {<<index, argk, nextid>>}
                                  ELSE @,
                         !.signals = IF built THEN @
                                     ELSE Append(@, <<"box", index>>)],
                         "ndarray_new")
            /\ IF obj = NULL
               THEN pc' = "ad_return" /\ argk' = argk
               ELSE /\ argk' = argk + 1
                    /\ pc' = IF argk = gu_nargs THEN "ad_call" ELSE "ad_new"
    /\ nextid' = nextid + 1
    /\ UNCHANGED <<lib, gen, self, others, args, mode, dims, steps,
                   kfail, path, index, offsets,
                   store_offset, outbuf, elems, status, retval, gil, saved,
                   views>>

(* variant: the kernel status is not stored to the error flag *)
AdCall_flagclear ==
    /\ pc = "ad_call"
    /\ LET raised == func_status(index) = "error"
       IN  /\ status' = func_status(index)
           /\ error' = FALSE
           /\ retval' = IF raised THEN NULL ELSE [id |-> nextid, val |-> 0]
           /\ outbuf' = IF raised THEN outbuf
                        ELSE pack_value(outbuf, views[gu_out].data,
                                        gu_value(index), abisize)
           /\ \E consumed \in Consumable(pending) :
                pending' = kernel_indicator(pending, raised, index, consumed)
           /\ hist' = Touch([hist EXCEPT
                        !.calls = Append(@, index),
                        !.before = pending,
                        !.made = IF raised THEN @
                                 ELSE @ \cup {<<index, 0, nextid>>},
                        !.signals = IF raised
                                    THEN Append(@, <<"kernel", index>>)
                                    ELSE @],
                        "call_function")
    /\ nextid' = nextid + 1
    /\ pc' = "ad_decref_ret"
    /\ UNCHANGED <<lib, gen, self, others, args, mode, dims, steps,
                   kfail, path, index, offsets,
                   store_offset, elems, gil, saved, slots, argk, views>>

(* call_function(func, pyobject, object_sig, ndarray_objects); the error   *)
(* flag becomes status.is_error                                            *)
AdCall ==
    /\ pc = "ad_call"
    /\ LET raised == func_status(index) = "error"
       IN  /\ status' = func_status(index)
           /\ error' = raised
           /\ retval' = IF raised THEN NULL ELSE [id |-> nextid, val |-> 0]
           /\ outbuf' = IF raised THEN outbuf
                        ELSE pack_value(outbuf, views[gu_out].data,
                                        gu_value(index), abisize)
           /\ \E consumed \in Consumable(pending) :
                pending' = kernel_indicator(pending, raised, index, consumed)
           /\ hist' = Touch([hist EXCEPT
                        !.calls = Append(@, index),
                        !.before = pending,
                        !.made = IF raised THEN @
                                 ELSE @ \cup {<<index, 0, nextid>>},
                        !.signals = IF raised
                                    THEN Append(@, <<"kernel", index>>)
                                    ELSE @],
                        "call_function")
    /\ nextid' = nextid + 1
    /\ pc' = "ad_decref_ret"
    /\ UNCHANGED <<lib, gen, self, others, args, mode, dims, steps,
                   kfail, path, index, offsets,
                   store_offset, elems, gil, saved, slots, argk, views>>

(* variant: the returned handle is kept *)
AdDecrefRet_keep ==
    /\ pc = "ad_decref_ret"
    /\ pc' = "ad_return"
    /\ UNCHANGED <<lib, gen, self, others, args, mode, dims, steps,
                   kfail, path, index, offsets,
                   store_offset, outbuf, elems, status, retval, gil, pending,
                   saved, slots, argk, error, views, nextid, hist>>

(* pyapi.decref(retval) *)
AdDecrefRet ==
    /\ pc = "ad_decref_ret"
    /\ hist' = Decref(hist, 0, retval, TRUE)
    /\ pc' = "ad_return"
    /\ UNCHANGED <<lib, gen, self, others, args, mode, dims, steps,
                   kfail, path, index, offsets,
                   store_offset, outbuf, elems, status, retval, gil, pending,
                   saved, slots, argk, error, views, nextid>>

(* bb_core_return: for ndary_ptr in ndarray_pointers:                      *)
(*     pyapi.decref(builder.load(ndary_ptr))                               *)
(* A slot that was never stored to holds whatever the stack holds.         *)
AdReturn ==
    /\ pc = "ad_return"
    /\ \E junk \in {NULL, WILD} :
        LET loaded == [k \in 1..gu_nargs |->
                          IF slots[k] = UNDEF THEN junk ELSE slots[k]]
        IN  hist' = DecrefAll(hist, loaded, 1, argk)
    /\ pc' = "gu_branch"
    /\ UNCHANGED <<lib, gen, self, others, args, mode, dims, steps,
                   kfail, path, index, offsets,
                   store_offset, outbuf, elems, status, retval, gil, pending,
                   saved, slots, argk, error, views, nextid>>

----------------------------------------------------------------------------
(* The general cursor-based loop of the native wrapper (the is_strided     *)
(* branch: build_slow_loop_body repeated by for_range), as a function of   *)
(* the output buffer it starts from.                                       *)
RECURSIVE general_loop(_, _, _, _)
general_loop(mem, i, offs, soff) ==
    IF i >= loopcount THEN mem
    ELSE general_loop(
            IF func_status(i) = "ok"
            THEN store_direct(mem,
                    func_value([a \in Inputs |-> load_direct(a, offs[a])]),
                    soff)
            ELSE mem,
            i + 1,
            [a \in Inputs |-> offs[a] + steps[a]],
            soff + steps[out])

ZeroBuf == [addr \in MemLo..MemHi |-> 0]

Range(s) == {s[k] : k \in DOMAIN s}

GuModes == {"gufunc_native", "gufunc_obj"}

Returned == pc = "done"

----------------------------------------------------------------------------
(* Claims *)

(* C1: in the native elementwise wrapper, whenever every input is densely  *)
(* packed, the output buffer left by the fast indexed loop is byte for     *)
(* byte the buffer the general cursor-based loop leaves on the same        *)
(* arguments and kernel, whatever the step of the output argument.         *)
C1_FastEqualsGeneral ==
    (mode = "ufunc_native" /\ Returned /\ unit_strided)
        => outbuf = general_loop(ZeroBuf, 0, [a \in Inputs |-> 0], 0)

(* C2: native elementwise wrapper: when the kernel fails on iteration i,   *)
(* the kernel is still invoked on every later iteration, iteration i       *)
(* stores nothing, and at return the host error channel was signalled.     *)
C2_ContinueAfterError ==
    mode = "ufunc_native" =>
        /\ \A s \in hist.stores : s[1] \notin kfail
        /\ Returned =>
             \A i \in kfail :
                /\ \A j \in (i + 1)..(loopcount - 1) :
                      \E k \in DOMAIN hist.calls :
                         /\ hist.calls[k] = j
                         /\ \E m \in 1..(k - 1) : hist.calls[m] = i
                /\ Len(hist.signals) >= 1
                /\ pending # NoErr

C2_Witness ==
    /\ mode = "ufunc_native" /\ Returned
    /\ \E i \in kfail : i + 1 < loopcount /\ (i + 1) \notin kfail

(* C3: generalized wrapper: once the kernel call of iteration i reported   *)
(* failure, no later iteration calls the kernel, the loop index never      *)
(* leaves i, control is on the way to the epilogue, and the whole call     *)
(* sends exactly one error signal.                                         *)
C3_AbortOnFirstError ==
    mode \in GuModes =>
        \A i \in kfail :
            i \in Range(hist.calls) =>
                /\ \A j \in Range(hist.calls) : j <= i
                /\ index = i
                /\ pc \in {"err_gil", "err_raise", "err_ungil", "gu_branch",
                           "ad_decref_ret", "ad_return", "epilogue", "ret",
                           "done"}
                /\ Len(hist.signals) <= 1
                /\ pc \in {"epilogue", "ret", "done"}
                      => Len(hist.signals) = 1

C3_Witness ==
    /\ mode \in GuModes /\ Returned
    /\ \E i \in kfail : i \in Range(hist.calls) /\ i + 1 < loopcount

(* C4: an indexed access (load_aligned / store_aligned) is only ever       *)
(* executed on an argument whose step equals its element size, the output  *)
(* argument included.                                                      *)
C4_AlignedOnlyWhenUnitStrided ==
    \A a \in hist.aligned : is_unit_strided(a)

(* C5: object-mode call adapter: when the construction of the handle of    *)
(* argument j returns null, the kernel is not called, no handle of index   *)
(* >= j exists, every handle of index < j is released exactly once, and    *)
(* no release reads a slot that this adapter call never assigned.          *)
C5_AdapterAbort ==
    (mode = "gufunc_obj" /\ pc = "gu_branch" /\ slots[argk] = NULL) =>
        /\ index \notin Range(hist.calls)
        /\ \A m \in hist.made : m[1] = index => m[2] < argk
        /\ \A m \in hist.made :
              m[1] = index =>
                 Cardinality({k \in DOMAIN hist.decrefs :
                                 hist.decrefs[k].id = m[3]}) = 1
        /\ \A k \in DOMAIN hist.decrefs :
              hist.decrefs[k].it = index => hist.decrefs[k].assigned

(* C6: object mode: the lock is taken once before anything else, is held   *)
(* from then until the end of the loop on every path, is released once     *)
(* before the return, and is not held after it.                            *)
C6_LockAroundLoop ==
    objmode =>
        /\ pc = "entry" =>
              gil = 0 /\ hist.acquired = 0 /\ hist.calls = <<>>
                      /\ hist.touched = {}
        /\ pc \notin {"entry", "ret", "done"} =>
              gil = 1 /\ hist.acquired = 1 /\ hist.released = 0
        /\ pc \in {"ret", "done"} =>
              gil = 0 /\ hist.acquired = 1 /\ hist.released = 1

C6_Witness ==
    /\ mode = "gufunc_obj" /\ Returned
    /\ error /\ index + 1 < loopcount
    /\ hist.released = 1

(* C7: every interaction with a managed handle or with the host error      *)
(* channel happens while the invocation holds the runtime lock.            *)
C7_LockHeldOnInteraction ==
    \A t \in hist.touched : t[2]

C7_Witness ==
    /\ mode = "gufunc_native"
    /\ <<"raise_error", TRUE>> \in hist.touched
    /\ Returned

(* C8: native mode: the lock is held only between the gil_ensure and the   *)
(* gil_release of the error branch of a failed kernel call; it is taken    *)
(* once per failed call and is free again before the cursors advance and   *)
(* at every iteration boundary.                                            *)
C8_NativeLockTransient ==
    (~ objmode) =>
        /\ gil \in {0, 1}
        /\ gil = 1 <=> pc \in {"err_raise", "err_ungil"}
        /\ pc \in {"err_gil", "err_raise", "err_ungil"} => status = "error"
        /\ hist.acquired =
              Cardinality({k \in DOMAIN hist.calls : hist.calls[k] \in kfail})
              - (IF pc = "err_gil" THEN 1 ELSE 0)
        /\ hist.released = hist.acquired - gil

C8_Witness ==
    /\ mode = "ufunc_native" /\ pc = "incr"
    /\ status = "error" /\ hist.released = 1
    /\ index + 1 < loopcount

(* C9: object mode: after each kernel call, the host error indicator is    *)
(* the kernel's new error if the kernel raised one, and otherwise exactly  *)
(* what it was before the call.                                            *)
C9_IndicatorPreserved ==
    (objmode /\ pc \in {"obj_store", "ad_decref_ret"}) =>
        IF status = "error" THEN pending = <<"kernel", index>>
        ELSE pending = hist.before

(* C10: object mode: an iteration in which the conversion of an argument   *)
(* to a handle returned null does not call the kernel.                     *)
C10_NoCallAfterBoxingFailure ==
    objmode =>
        \A k \in DOMAIN hist.signals :
            hist.signals[k][1] = "box"
                => hist.signals[k][2] \notin Range(hist.calls)

UfuncModes == {"ufunc_native", "ufunc_obj"}

(* some kernel call of this invocation reported failure, or some handle    *)
(* construction returned null                                              *)
SomeFailure ==
    \/ \E k \in DOMAIN hist.calls : hist.calls[k] \in kfail
    \/ hist.nullcalls # {}
    \/ \E k \in DOMAIN hist.signals : hist.signals[k][1] = "box"

(* the generalized loop was left through the error branch *)
Aborted == mode \in GuModes /\ error /\ index < loopcount

(* the host error indicator holds an error raised during this call *)
PendingFromCall == pending[1] \in {"native", "kernel", "box"}

(* C11: whenever a kernel call failed or a handle construction returned    *)
(* null, then at return the remaining iterations were aborted or the host  *)
(* error indicator holds an error of this call.                            *)
C11_NoSilentFailure ==
    (Returned /\ SomeFailure) => (Aborted \/ PendingFromCall)

C11_Witness ==
    /\ Returned /\ mode = "ufunc_native"
    /\ \E i \in kfail : i + 1 < loopcount
    /\ ~ Aborted /\ PendingFromCall

IterationBoundary == pc \in {"head", "after_loop", "ret", "done"}

(* C12: elementwise wrapper, every path: all cursors start at 0; with k    *)
(* the number of completed iterations, every input cursor is k times the   *)
(* input's step and the output cursor is k times the output's step,        *)
(* whether or not earlier iterations failed.                               *)
C12_CursorIsKTimesStep ==
    mode \in UfuncModes =>
        /\ \A a \in Inputs : offsets[a] = index * steps[a]
        /\ store_offset = index * steps[out]
        /\ pc = "entry" => index = 0
        /\ IterationBoundary => index = Len(hist.calls)
        /\ index <= Len(hist.calls) /\ Len(hist.calls) <= index + 1

C12_Witness ==
    /\ mode \in UfuncModes /\ Returned
    /\ kfail # {} /\ loopcount >= 2
    /\ steps[out] # 0 /\ steps[1] # 0
    /\ store_offset = loopcount * steps[out]

(* the cursors of the elementwise wrapper, paired with their steps *)
Cursors(offs, soff) ==
    {<<offs[a], steps[a]>> : a \in Inputs} \cup {<<soff, steps[out]>>}

(* C13 as stated: for every step the steps table can hold, no step of the  *)
(* elementwise wrapper decreases a cursor, and no cursor exceeds           *)
(* loopcount times its step.                                               *)
CursorsNonDecreasing ==
    mode \in UfuncModes =>
        /\ \A a \in Inputs : offsets'[a] >= offsets[a]
        /\ store_offset' >= store_offset
        /\ \A c \in Cursors(offsets', store_offset') :
              c[1] <= loopcount * c[2]

C13_CursorsNonDecreasing == [][CursorsNonDecreasing]_vars

(* C13, amended: a cursor moves monotonically in the direction of its      *)
(* step and stays between 0 and loopcount times the step: non-decreasing   *)
(* and at most loopcount * step for a step >= 0, non-increasing and at     *)
(* least loopcount * step for a step < 0.                                  *)
CursorsMonotoneInStepDirection ==
    mode \in UfuncModes =>
        /\ \A a \in Inputs :
              IF steps[a] >= 0 THEN offsets'[a] >= offsets[a]
              ELSE offsets'[a] <= offsets[a]
        /\ IF steps[out] >= 0 THEN store_offset' >= store_offset
           ELSE store_offset' <= store_offset
        /\ \A c \in Cursors(offsets', store_offset') :
              IF c[2] >= 0 THEN 0 <= c[1] /\ c[1] <= loopcount * c[2]
              ELSE loopcount * c[2] <= c[1] /\ c[1] <= 0

C13_CursorsMonotoneInStepDirection ==
    [][CursorsMonotoneInStepDirection]_vars

C13_Witness ==
    /\ mode \in UfuncModes /\ Returned
    /\ loopcount >= 2
    /\ steps[out] < 0 /\ store_offset = loopcount * steps[out]
    /\ steps[1] > 0 /\ offsets[1] = loopcount * steps[1]
    /\ steps[2] = 0

(* C14: a wrapper called with iteration count 0 calls the kernel zero      *)
(* times, loads and stores no element, builds and releases no handle,      *)
(* leaves every byte of the output buffer as it was and raises no error.   *)
C14_ZeroIterations ==
    loopcount = 0 =>
        /\ hist.calls = <<>>
        /\ hist.loads = {} /\ hist.stores = {}
        /\ hist.made = {} /\ hist.decrefs = <<>>
        /\ hist.signals = <<>>
        /\ outbuf = ZeroBuf
        /\ views = <<>>

C14_Witness ==
    /\ loopcount = 0 /\ Returned
    /\ mode = "gufunc_obj" /\ hist.released = 1

ScalarArgs == {i \in 1..gu_nargs : as_scalar(i)}

(* the element a view of a scalar argument supplies to the kernel *)
view_value(i) == unpack_value(InMem(i), views[i].data, abisize)

InIteration == mode \in GuModes /\ views # <<>>

(* C15 as stated: a generalized argument without symbols is presented at   *)
(* every outer iteration as a view of shape [1] and stride [0] that        *)
(* supplies the same value as at iteration 0, whatever its outer step.     *)
C15_ScalarSameValue ==
    InIteration =>
        \A i \in ScalarArgs :
            /\ views[i].shape = <<1>>
            /\ views[i].strides = <<0>>
            /\ view_value(i) = load_direct(i, 0)

(* C15, amended: the view has shape [1] and stride [0] and its data        *)
(* pointer is the base moved by the iteration index times the argument's   *)
(* outer step; the value it supplies is the same at every outer iteration  *)
(* when that outer step is 0.                                              *)
C15_ScalarViewFollowsOuterStep ==
    InIteration =>
        \A i \in ScalarArgs :
            /\ views[i].shape = <<1>>
            /\ views[i].strides = <<0>>
            /\ \E ind \in {index, index - 1} :
                  /\ ind >= 0
                  /\ views[i].data = args[i] + ind * core_step(i)
            /\ core_step(i) = 0 => view_value(i) = load_direct(i, 0)

C15_Witness ==
    /\ InIteration /\ pc = "gu_branch" /\ index >= 1
    /\ \E i \in ScalarArgs : core_step(i) = 0

ValidOutStep == steps[out] >= abisize \/ steps[out] <= 0 - abisize

(* C16: native elementwise wrapper with a kernel that never fails: after   *)
(* the call, output element i (at i times the output step) is the kernel   *)
(* applied to element i of every input (at i times that input's step).     *)
C16_OutputIsKernelOfInputs ==
    (mode = "ufunc_native" /\ Returned /\ kfail = {} /\ ValidOutStep) =>
        \A i \in 0..(loopcount - 1) :
            unpack_value(outbuf, args[out] + i * steps[out], abisize)
                = func_value([a \in Inputs |-> load_direct(a, i * steps[a])])

(* bytes of the output buffer covered by the logged stores *)
StoredBytes ==
    {args[out] + s[2] + b : s \in hist.stores, b \in 0..(abisize - 1)}

GeneralPathFrame ==
    (mode = "ufunc_native" /\ path = "slow") =>
        /\ \A l \in hist.loads : l[3] = l[1] * steps[l[2]]
        /\ \A s \in hist.stores : s[2] = s[1] * steps[out]
        /\ \A addr \in DOMAIN outbuf :
              outbuf[addr] # 0 => addr \in StoredBytes
        /\ dims' = dims /\ steps' = steps

(* C17: general path of the native elementwise wrapper: iteration i reads  *)
(* input a at byte offset i * step_a only and writes the output at byte    *)
(* offset i * step_out only; every other output byte keeps its content,    *)
(* and no step writes the dims or steps table (input buffers are not part  *)
(* of the state: no instruction stores through an input pointer).          *)
C17_GeneralPathFrame == [][GeneralPathFrame]_vars

C17_Witness ==
    /\ mode = "ufunc_native" /\ path = "slow" /\ Returned
    /\ steps[1] = 2 * abisize /\ steps[out] = 2 * abisize
    /\ Cardinality(hist.stores) >= 2

(* releases of the handle with identity id *)
Releases(id) == {k \in 1..Len(hist.decrefs) : hist.decrefs[k].id = id}

(* handles made by the wrapper and not yet released *)
Owned == {h \in hist.made : Releases(h[3]) = {}}

(* C20: elementwise object-mode body: every handle produced by boxing is   *)
(* released exactly once, in its own iteration and after that iteration's  *)
(* kernel call; a non-null result handle is released exactly once; at      *)
(* every iteration boundary and at return the wrapper owns no handle.      *)
C20_HandlesReleasedOnce ==
    mode = "ufunc_obj" =>
        /\ \A h \in hist.made :
              /\ Cardinality(Releases(h[3])) <= 1
              /\ \A k \in Releases(h[3]) :
                    /\ hist.decrefs[k].it = h[1]
                    /\ hist.decrefs[k].slot = h[2]
                    /\ Len(hist.calls) > h[1]
        /\ \A k \in 1..Len(hist.decrefs) :
              hist.decrefs[k].id # NULL.id =>
                  \E h \in hist.made : h[3] = hist.decrefs[k].id
        /\ (IterationBoundary \/ Returned) => Owned = {}

C20_Witness ==
    /\ mode = "ufunc_obj" /\ Returned
    /\ \E h \in hist.made : h[2] = 0
    /\ \E h \in hist.made : h[2] # 0 /\ h[1] >= 1
    /\ \E k \in 1..Len(hist.decrefs) : hist.decrefs[k].id = NULL.id

(* the adapter call of the current iteration converted every argument *)
AllBuilt == mode = "gufunc_obj" /\ argk = gu_nargs + 1

(* the releases of the current iteration, in order *)
ReleasesNow == SelectSeq(hist.decrefs, LAMBDA d : d.it = index)

CallsNow == {k \in DOMAIN hist.calls : hist.calls[k] = index}

(* C21: object-mode call adapter, every handle construction succeeded:     *)
(* the kernel is invoked exactly once, then the returned handle is         *)
(* released once, then every argument handle once, in argument order, for  *)
(* an ok and for an error status alike; nothing is released before the     *)
(* kernel call and no handle of the iteration stays unreleased.            *)
C21_AdapterCallThenRelease ==
    /\ (mode = "gufunc_obj" /\ pc \in {"ad_init", "ad_new", "ad_call"}) =>
          /\ ReleasesNow = <<>>
          /\ CallsNow = {}
    /\ (AllBuilt /\ pc = "ad_decref_ret") =>
          Cardinality(CallsNow) = 1 /\ ReleasesNow = <<>>
    /\ (AllBuilt /\ pc = "gu_branch") =>
          /\ Cardinality(CallsNow) = 1
          /\ Len(ReleasesNow) = gu_nargs + 1
          /\ ReleasesNow[1].slot = 0 /\ ReleasesNow[1].id = retval.id
          /\ \A k \in 1..gu_nargs :
                /\ ReleasesNow[k + 1].slot = k
                /\ ReleasesNow[k + 1].id = slots[k].id
                /\ slots[k] \notin {NULL, UNDEF, WILD}
          /\ \A h \in hist.made :
                h[1] = index => Cardinality(Releases(h[3])) = 1

C21_Witness ==
    /\ AllBuilt /\ pc = "gu_branch" /\ index >= 1
    /\ status = "error" /\ retval = NULL

ConversionFailedNow ==
    \E k \in DOMAIN hist.signals : hist.signals[k] = <<"box", index>>

KernelFailedNow == CallsNow # {} /\ func_status(index) = "error"

ErrorFlagExact ==
    (mode = "gufunc_obj" /\ pc = "gu_branch") =>
        /\ error <=> (ConversionFailedNow \/ KernelFailedNow)
        /\ ~error <=> (AllBuilt /\ CallsNow # {} /\ status = "ok")
        /\ (pc' = "epilogue") <=> error
        /\ (pc' = "head" /\ index' = index + 1) <=> ~error

(* C22: the error flag the object-mode call adapter returns is true        *)
(* exactly when a handle construction of this call returned null or the    *)
(* kernel's status is error, false exactly when every construction         *)
(* succeeded and the status is ok; the generalized object-mode wrapper     *)
(* leaves its loop from the body exactly when the flag is true.            *)
C22_ErrorFlagExact == [][ErrorFlagExact]_vars

C22_Witness ==
    /\ mode = "gufunc_obj" /\ Returned
    /\ index = 1 /\ index < loopcount
    /\ error /\ KernelFailedNow /\ ~ConversionFailedNow

(* iterations whose kernel call returned a null result *)
NullResult(i) == i \in kfail \/ i \in hist.nullcalls

AfterNullResult ==
    /\ mode = "ufunc_obj" /\ retval = NULL
    /\ pc \in {"obj_decref", "err_pop", "obj_store", "incr"}

NullResultSkipsStore ==
    mode = "ufunc_obj" =>
        /\ \A st \in hist.stores : ~NullResult(st[1])
        /\ \A k \in DOMAIN hist.decrefs :
              hist.decrefs[k].slot = 0 => hist.decrefs[k].id # NULL.id
        /\ AfterNullResult =>
              /\ outbuf' = outbuf
              /\ hist'.stores = hist.stores
              /\ pc = "incr" =>
                    /\ index' = index + 1
                    /\ \A a \in Inputs : offsets'[a] = offsets[a] + steps[a]
                    /\ store_offset' = store_offset + steps[out]
        /\ Returned =>
              /\ Len(hist.calls) = loopcount
              /\ \A k \in DOMAIN hist.calls : hist.calls[k] = k - 1

Next ==
    \/ UfuncEntryNative
    \/ ForRangeHead
    \/ NativeLoad
    \/ NativeCall
    \/ NativeStore
    \/ ErrGilEnsure
    \/ ErrRaise
    \/ ErrGilRelease
    \/ IncrementIndices
    \/ NativeAfterLoop
    \/ UfuncEntryObj
    \/ ObjLoad
    \/ ErrPush
    \/ ObjCall
    \/ ObjDecrefArgs
    \/ ErrPop
    \/ ObjStore
    \/ ObjAfterLoop
    \/ GuPrologueNative
    \/ GuPrologueObj
    \/ GuSlice
    \/ GuNativeCall
    \/ GuBranch
    \/ GuAfterLoop
    \/ GuEpilogueNative
    \/ GuEpilogueObj
    \/ AdInit
    \/ AdNew
    \/ AdCall
    \/ AdDecrefRet
    \/ AdReturn
    \/ RetVoid

Spec == Init /\ [][Next]_vars

----------------------------------------------------------------------------
(* Concurrent invocations.  The generated wrapper keeps its cursors, index *)
(* and descriptors in stack slots of the call (alloca_once, lines 174-183, *)
(* 443-451): an invocation's context is the value of these variables, and  *)
(* a context switch saves the running invocation and resumes another one.  *)
(* The output memory and the handle allocator are shared.                  *)

Threads == {1, 2}

(* the index range every invocation is given *)
ConcRange == {0, 1}

ConcN == Cardinality(ConcRange)

Me ==
    [args |-> args, mode |-> mode, dims |-> dims, steps |-> steps,
     kfail |-> kfail, pc |-> pc, path |-> path, index |-> index,
     offsets |-> offsets, store_offset |-> store_offset, elems |-> elems,
     status |-> status, retval |-> retval, gil |-> gil,
     pending |-> pending, saved |-> saved, slots |-> slots, argk |-> argk,
     error |-> error, views |-> views, hist |-> hist]

(* the context of invocation t *)
ctx(t) == IF t = self THEN Me ELSE others[t]

Resume(c) ==
    /\ args' = c.args /\ mode' = c.mode /\ dims' = c.dims
    /\ steps' = c.steps /\ kfail' = c.kfail /\ pc' = c.pc
    /\ path' = c.path /\ index' = c.index /\ offsets' = c.offsets
    /\ store_offset' = c.store_offset /\ elems' = c.elems
    /\ status' = c.status /\ retval' = c.retval /\ gil' = c.gil
    /\ pending' = c.pending /\ saved' = c.saved /\ slots' = c.slots
    /\ argk' = c.argk /\ error' = c.error /\ views' = c.views
    /\ hist' = c.hist

(* the scheduler runs invocation t instead of the current one *)
Switch(t) ==
    /\ t \in DOMAIN others
    /\ others[t].pc # "done"
    /\ self' = t
    /\ others' = [u \in (DOMAIN others \ {t}) \cup {self} |->
                    IF u = self THEN Me ELSE others[u]]
    /\ Resume(others[t])
    /\ UNCHANGED <<lib, gen, outbuf, nextid>>

(* steps tables of the concurrent calls *)
ConcUfuncSteps ==
    {<<abisize, abisize, abisize>>,
     <<2 * abisize, 2 * abisize, 2 * abisize>>,
     <<abisize, abisize, 0 - abisize>>}

ConcGufuncSteps ==
    {st \in GuStepsTables : \A i \in 1..gu_nargs : st[i] = 2 * abisize}

ConcSteps(m) ==
    IF m = "ufunc_native" THEN ConcUfuncSteps
    ELSE IF m = "ufunc_obj"
         THEN {st \in ConcUfuncSteps : \A a \in 1..nargs : st[a] > abisize}
         ELSE ConcGufuncSteps

(* invocation t of a call split into consecutive index ranges of ConcN     *)
(* iterations: every base pointer is moved by t - 1 ranges                 *)
StartCtx(m, st, kf, t) ==
    [args |-> [a \in 1..gu_nargs |->
                  IF a \in (IF m \in UfuncModes THEN 1..nargs
                            ELSE 1..gu_nargs)
                  THEN (t - 1) * ConcN * st[a] ELSE 0],
     mode |-> m,
     dims |-> IF m \in UfuncModes THEN <<ConcN>> ELSE <<ConcN>> \o GuCoreDims,
     steps |-> st, kfail |-> kf, pc |-> "entry", path |-> "none",
     index |-> 0, offsets |-> [a \in Inputs |-> 0], store_offset |-> 0,
     elems |-> <<>>, status |-> "none",
     retval |-> IF m \in {"ufunc_obj", "gufunc_obj"} THEN NULL ELSE 0,
     gil |-> 0, pending |-> NoErr, saved |-> NoErr,
     slots |-> IF m \in UfuncModes THEN <<>>
               ELSE [k \in 1..gu_nargs |-> UNDEF],
     argk |-> 0, error |-> FALSE, views |-> <<>>, hist |-> EmptyHist]

InitC ==
    \E m \in Modes :
      \E st \in ConcSteps(m) :
        \E kf \in SUBSET ConcRange :
          /\ lib = LibStart
          /\ gen = generate(GenStart(sin, sout))
          /\ self = 1
          /\ others = [t \in Threads \ {1} |-> StartCtx(m, st, kf, t)]
          /\ args = StartCtx(m, st, kf, 1).args
          /\ mode = m
          /\ dims = StartCtx(m, st, kf, 1).dims
          /\ steps = st
          /\ kfail = kf
          /\ pc = "entry"
          /\ path = "none"
          /\ index = 0
          /\ offsets = [a \in Inputs |-> 0]
          /\ store_offset = 0
          /\ outbuf = [addr \in MemLo..MemHi |-> 0]
          /\ elems = <<>>
          /\ status = "none"
          /\ retval = StartCtx(m, st, kf, 1).retval
          /\ gil = 0
          /\ pending = NoErr
          /\ saved = NoErr
          /\ slots = StartCtx(m, st, kf, 1).slots
          /\ argk = 0
          /\ error = FALSE
          /\ views = <<>>
          /\ nextid = 1
          /\ hist = EmptyHist

NextC ==
    \/ Next
    \/ \E t \in Threads : Switch(t)

SpecC == InitC /\ [][NextC]_vars

(* a step of invocation t *)
Proc(t) == self = t /\ Next

(* a fair scheduler and a fair lock: an invocation that can run again and  *)
(* again is eventually run, and one that can be resumed again and again is *)
(* eventually resumed                                                      *)
FairSpecC ==
    /\ SpecC
    /\ \A t \in Threads : SF_vars(Proc(t)) /\ SF_vars(Switch(t))

----------------------------------------------------------------------------
(* Generation of a wrapper for a shape signature *)

run == <<self, others, args, mode, dims, steps, kfail, pc, path, index,
         offsets, store_offset, outbuf, elems, status, retval, gil, pending,
         saved, slots, argk, error, views, nextid, hist>>

InitGen ==
    /\ \E si \in Groups(GenNin), so \in Groups(GenNout) :
          gen = GenStart(si, so)
    /\ lib = LibStart
    /\ self = 1
    /\ others = <<>>
    /\ args = [a \in 1..gu_nargs |-> 0]
    /\ mode = "gufunc_native"
    /\ dims = <<0>> \o GuCoreDims
    /\ steps = [k \in 1..(gu_nargs + Len(GuCoreStrides)) |-> 0]
    /\ kfail = {}
    /\ pc = "entry"
    /\ path = "none"
    /\ index = 0
    /\ offsets = [a \in Inputs |-> 0]
    /\ store_offset = 0
    /\ outbuf = [addr \in MemLo..MemHi |-> 0]
    /\ elems = <<>>
    /\ status = "none"
    /\ retval = 0
    /\ gil = 0
    /\ pending = NoErr
    /\ saved = NoErr
    /\ slots = <<>>
    /\ argk = 0
    /\ error = FALSE
    /\ views = <<>>
    /\ nextid = 1
    /\ hist = EmptyHist

(* sym_map loop, lines 315-319 *)
GenSymMap ==
    /\ gen.pc = "sym_map"
    /\ gen' = gen_step(gen)
    /\ UNCHANGED <<lib, run>>

(* sym_dim loop, lines 321-326 *)
GenSymDim ==
    /\ gen.pc = "sym_dim"
    /\ gen' = gen_step(gen)
    /\ UNCHANGED <<lib, run>>

(* one round of the descriptor loop, lines 328-337 *)
GenArray ==
    /\ gen.pc = "arrays" /\ gen.i < Len(gen.sin) + Len(gen.sout)
    /\ gen' = gen_step(gen)
    /\ UNCHANGED <<lib, run>>

(* the loop is emitted and the wrapper returned, lines 339-365 *)
GenReturn ==
    /\ gen.pc = "arrays" /\ gen.i = Len(gen.sin) + Len(gen.sout)
    /\ gen' = gen_step(gen)
    /\ UNCHANGED <<lib, run>>

NextGen == GenSymMap \/ GenSymDim \/ GenArray \/ GenReturn

SpecGen == InitGen /\ [][NextGen]_vars

----------------------------------------------------------------------------
(* Constructions of libcurand and calls through its attributes *)

InitLib ==
    /\ lib = LibStart
    /\ gen = generate(GenStart(sin, sout))
    /\ self = 1
    /\ others = <<>>
    /\ args = [a \in 1..gu_nargs |-> 0]
    /\ mode = "gufunc_native"
    /\ dims = <<0>> \o GuCoreDims
    /\ steps = [k \in 1..(gu_nargs + Len(GuCoreStrides)) |-> 0]
    /\ kfail = {}
    /\ pc = "entry"
    /\ path = "none"
    /\ index = 0
    /\ offsets = [a \in Inputs |-> 0]
    /\ store_offset = 0
    /\ outbuf = [addr \in MemLo..MemHi |-> 0]
    /\ elems = <<>>
    /\ status = "none"
    /\ retval = 0
    /\ gil = 0
    /\ pending = NoErr
    /\ saved = NoErr
    /\ slots = <<>>
    /\ argk = 0
    /\ error = FALSE
    /\ views = <<>>
    /\ nextid = 1
    /\ hist = EmptyHist

(* libcurand(override_path): __new__ is entered *)
LibNew ==
    /\ lib.pc = "idle" /\ lib.news < MaxNew
    /\ \E override_path \in Paths :
          lib' = [lib EXCEPT !.pc = "check", !.path = override_path,
                             !.news = @ + 1, !.dll = "None",
                             !.inst = None, !.todo = {}]
    /\ UNCHANGED <<gen, run>>

(* if self.__singleton is None: ... else: inst = self.__singleton *)
LibCheck ==
    /\ lib.pc = "check"
    /\ lib' = IF lib.singleton = None
              THEN [lib EXCEPT !.pc = "open"]
              ELSE [lib EXCEPT !.inst = lib.singleton, !.pc = "return"]
    /\ UNCHANGED <<gen, run>>

(* path = 'libcurand' + dlext if not override_path else override_path;     *)
(* dll = dllopener(path), which raises OSError when the file does not open *)
LibOpen ==
    /\ lib.pc = "open"
    /\ lib' = IF Opens(lib.path)
              THEN [lib EXCEPT !.dll = lib.path, !.opened = @ + 1,
                               !.pc = "create"]
              ELSE [lib EXCEPT !.raised = Append(@, "OSError"),
                               !.pc = "idle"]
    /\ UNCHANGED <<gen, run>>

(* inst = object.__new__(libcurand); self.__singleton = inst;              *)
(* inst.dll = dll; inst.__initialize() is entered                          *)
LibCreate ==
    /\ lib.pc = "create"
    /\ lib' = [lib EXCEPT
                 !.insts = Append(@, [dll |-> lib.dll, bound |-> {}]),
                 !.inst = Len(lib.insts) + 1,
                 !.singleton = Len(lib.insts) + 1,
                 !.todo = CtypeFunctions,
                 !.pc = "bind"]
    /\ UNCHANGED <<gen, run>>

(* one round of __initialize, in the order vars(type(self)).items() gives: *)
(* fn = getattr(self.dll, name) raises AttributeError when the library     *)
(* does not export name; else setattr(self, name, wrapper)                 *)
LibBind ==
    /\ lib.pc = "bind" /\ lib.todo # {}
    /\ \E name \in lib.todo :
          lib' = IF name \in Exports(lib.insts[lib.inst].dll)
                 THEN [lib EXCEPT !.insts[lib.inst].bound = @ \cup {name},
                                  !.todo = @ \ {name}]
                 ELSE [lib EXCEPT !.raised = Append(@, "AttributeError"),
                                  !.pc = "idle"]
    /\ UNCHANGED <<gen, run>>

(* __initialize returns *)
LibBound ==
    /\ lib.pc = "bind" /\ lib.todo = {}
    /\ lib' = [lib EXCEPT !.pc = "return"]
    /\ UNCHANGED <<gen, run>>

(* return inst *)
LibReturn ==
    /\ lib.pc = "return"
    /\ lib' = [lib EXCEPT !.returned = Append(@, lib.inst), !.pc = "idle"]
    /\ UNCHANGED <<gen, run>>

(* a caller uses attribute `name` of an instance it was given: the wrapper *)
(* calls the library function and checks its status; the declaration left  *)
(* on the class is not callable                                            *)
LibCall ==
    /\ lib.pc = "idle" /\ lib.returned # <<>>
    /\ \E k \in DOMAIN lib.returned, name \in CtypeFunctions,
          st \in Statuses :
          lib' = [lib EXCEPT !.last =
                    IF attribute(lib, lib.returned[k], name) = "wrapped"
                    THEN <<name, st, check_error(st)>>
                    ELSE <<name, st, "TypeError">>]
    /\ UNCHANGED <<gen, run>>

NextLib ==
    \/ LibNew \/ LibCheck \/ LibOpen \/ LibCreate \/ LibBind \/ LibBound
    \/ LibReturn \/ LibCall

SpecLib == InitLib /\ [][NextLib]_vars

----------------------------------------------------------------------------
(* Claims about concurrent invocations *)

Invocations == DOMAIN others \cup {self}

AllReturned == \A t \in Invocations : ctx(t).pc = "done"

(* The native elementwise wrapper run alone on the arguments of context c, *)
(* as a function of the output memory it starts from (lines 201-218).      *)
alone_fast(c) == \A a \in Inputs : c.steps[a] = abisize

alone_value(c, i) ==
    func_value([a \in Inputs |->
        unpack_value(InMem(a), c.args[a] + i * c.steps[a], abisize)])

alone_addr(c, i) ==
    c.args[out] + (IF alone_fast(c) THEN i * abisize ELSE i * c.steps[out])

RECURSIVE run_alone(_, _, _)
run_alone(c, mem, i) ==
    IF i >= c.dims[1] THEN mem
    ELSE run_alone(c,
                   IF i \in c.kfail THEN mem
                   ELSE pack_value(mem, alone_addr(c, i), alone_value(c, i),
                                   abisize),
                   i + 1)

(* the bytes of the output elements of the index range of context c *)
Region(c) ==
    {c.args[out] + i * c.steps[out] + b :
        i \in 0..(c.dims[1] - 1), b \in 0..(abisize - 1)}

LeftAsAlone ==
    (mode = "ufunc_native" /\ AllReturned) =>
        \A t \in Invocations :
            \A addr \in Region(ctx(t)) :
                outbuf[addr] = run_alone(ctx(t), ZeroBuf, 0)[addr]

(* a step of the running invocation leaves every other context as it was *)
Isolation ==
    self' = self => \A t \in DOMAIN others : others'[t] = others[t]

(* C18: invocations of the native elementwise wrapper running concurrently *)
(* on consecutive index ranges, under every interleaving: when all have    *)
(* returned, the output region of each holds what that invocation leaves   *)
(* there when run alone, and no step of one invocation reads or writes a   *)
(* cursor or descriptor of another.                                        *)
C18_ConcurrentAsAlone == []LeftAsAlone /\ [][Isolation]_vars

(* the kernel calls of iterations 0 .. n-1, in order *)
Ascending(n) == [k \in 1..n |-> k - 1]

(* iterations of context c in which a kernel call or a conversion failed *)
KernelFailing(c) ==
    {i \in c.kfail : \E k \in DOMAIN c.hist.calls : c.hist.calls[k] = i}

ConversionFailing(c) ==
    {i \in 0..(c.dims[1] - 1) :
        \E k \in DOMAIN c.hist.signals : c.hist.signals[k] = <<"box", i>>}

Failing(c) == KernelFailing(c) \cup ConversionFailing(c)

Min(S) == CHOOSE x \in S : \A y \in S : x <= y

CallsAsStated(c) ==
    IF c.mode \in UfuncModes THEN c.hist.calls = Ascending(c.dims[1])
    ELSE c.hist.calls =
            Ascending(IF Failing(c) = {} THEN c.dims[1]
                      ELSE Min(Failing(c)) + 1)

(* C19 as stated, its final result: when the invocations have returned,   *)
(* the elementwise wrapper has called the kernel on 0..N-1 in order, the   *)
(* generalized wrapper on 0..m in order, m the first failing index (N-1    *)
(* when no iteration fails).                                               *)
C19_CallsUpToFirstFailing ==
    AllReturned => \A t \in Invocations : CallsAsStated(ctx(t))

CallsAsMade(c) ==
    IF c.mode \in UfuncModes THEN c.hist.calls = Ascending(c.dims[1])
    ELSE c.hist.calls =
            Ascending(IF Failing(c) = {} THEN c.dims[1]
                      ELSE IF Min(Failing(c)) \in KernelFailing(c)
                           THEN Min(Failing(c)) + 1
                           ELSE Min(Failing(c)))

(* C19, amended: under a fair lock and scheduler every invocation          *)
(* eventually returns; the elementwise wrapper has then called the kernel  *)
(* on 0..N-1 in order, each once; the generalized wrapper on 0..m when the *)
(* kernel call of iteration m is the first failure, on 0..m-1 when the     *)
(* first failure is an argument conversion of iteration m (the kernel is   *)
(* not called for that iteration), and on 0..N-1 when nothing fails.       *)
C19_ReturnsWithCallsInOrder ==
    /\ <>AllReturned
    /\ [](AllReturned => \A t \in Invocations : CallsAsMade(ctx(t)))

C19_Witness ==
    /\ AllReturned
    /\ mode = "gufunc_obj"
    /\ \A t \in Invocations : ctx(t).hist.acquired > 0
    /\ \E t \in Invocations :
          /\ Failing(ctx(t)) = {1}
          /\ KernelFailing(ctx(t)) = {}
          /\ ctx(t).hist.calls = <<0>>

----------------------------------------------------------------------------
(* Claims about the generation of the generalized wrapper *)

GenArgs == gen.sin \o gen.sout

InputSymbols == {flatten(gen.sin)[k] : k \in DOMAIN flatten(gen.sin)}

FirstPos(sym) ==
    CHOOSE k \in DOMAIN flatten(gen.sin) :
        /\ flatten(gen.sin)[k] = sym
        /\ \A l \in 1..(k - 1) : flatten(gen.sin)[l] # sym

(* rank of a symbol in order of first occurrence in the input groups *)
Rank(sym) ==
    Cardinality({t \in InputSymbols : FirstPos(t) < FirstPos(sym)})

SymbolsBound == gen.pc \in {"arrays", "done", "failed"}

(* C24: each distinct symbol of the input groups is bound to dims[1 + r],  *)
(* r its rank in order of first occurrence scanning the inputs left to     *)
(* right; distinct symbols get distinct slots, a shared symbol one slot,   *)
(* and every argument carrying the symbol, input or output, uses it.       *)
C24_SymbolSlotIsFirstOccurrenceRank ==
    SymbolsBound =>
        /\ DOMAIN gen.sym_dim = InputSymbols
        /\ \A sym \in InputSymbols : gen.sym_dim[sym] = 1 + Rank(sym)
        /\ \A s1, s2 \in InputSymbols :
              s1 # s2 => gen.sym_dim[s1] # gen.sym_dim[s2]
        /\ \A k \in DOMAIN gen.arrays :
              \A j \in DOMAIN GenArgs[k] :
                 gen.arrays[k].shape[j] = 1 + Rank(GenArgs[k][j])

C24_Witness ==
    /\ gen.pc = "done"
    /\ gen.sin = << <<"n", "m">>, <<"m">> >>
    /\ gen.sout = << <<"n">> >>
    /\ gen.sym_dim["n"] = 1 /\ gen.sym_dim["m"] = 2

RECURSIVE SumLen(_, _)
SumLen(grp, n) == IF n = 0 THEN 0 ELSE Len(grp[n]) + SumLen(grp, n - 1)

(* steps indices of the core strides of the k-th argument *)
StrideRegion(k) ==
    {gen.arrays[k].strides[j] : j \in DOMAIN gen.arrays[k].strides}

(* C25: with the arguments in (inputs, outputs) order, argument a's outer  *)
(* step is steps[a] and its core stride of dimension j is                  *)
(* steps[N_in + N_out + S_a + j], S_a the sum of len(symbols) over the     *)
(* arguments before a; an argument without symbols consumes no entry, and  *)
(* the regions of distinct arguments are contiguous and disjoint.          *)
C25_StrideRegions ==
    LET base == Len(gen.sin) + Len(gen.sout)
    IN  /\ \A k \in DOMAIN gen.arrays :
              /\ gen.arrays[k].core_step = k - 1
              /\ Len(gen.arrays[k].strides) = Len(GenArgs[k])
              /\ \A j \in DOMAIN gen.arrays[k].strides :
                    gen.arrays[k].strides[j]
                        = base + SumLen(GenArgs, k - 1) + (j - 1)
              /\ GenArgs[k] = <<>> => StrideRegion(k) = {}
        /\ \A k, l \in DOMAIN gen.arrays :
              k # l => StrideRegion(k) \cap StrideRegion(l) = {}
        /\ gen.arrays # <<>> =>
              UNION {StrideRegion(k) : k \in DOMAIN gen.arrays}
                  = base..(gen.step_offset - 1)

C25_Witness ==
    /\ gen.pc = "done"
    /\ gen.sin = << <<"m", "n">>, <<>> >>
    /\ gen.sout = << <<"n">> >>
    /\ gen.arrays[3].strides = <<5>>

OutputSymbols == {flatten(gen.sout)[k] : k \in DOMAIN flatten(gen.sout)}

OutputsBound == OutputSymbols \subseteq InputSymbols

(* C26: generation completes only when every symbol of an output sequence  *)
(* occurs in an input sequence; when an output sequence carries a symbol   *)
(* absent from every input sequence, generation fails with an error at     *)
(* that argument's descriptor and no wrapper is returned.                  *)
C26_OutputSymbolsMustBeBound ==
    /\ gen.pc = "done" => OutputsBound
    /\ gen.pc = "failed" =>
          /\ ~OutputsBound
          /\ gen.i >= Len(gen.sin)
          /\ \E j \in DOMAIN GenArgs[gen.i + 1] :
                GenArgs[gen.i + 1][j] \notin InputSymbols
    /\ (gen.pc = "arrays" /\ ~OutputsBound) =>
          \E k \in (gen.i + 1)..Len(GenArgs) :
             \E j \in DOMAIN GenArgs[k] : GenArgs[k][j] \notin InputSymbols

C26_Witness ==
    /\ gen.pc = "failed"
    /\ gen.sin = << <<"m">> >>
    /\ gen.sout = << <<"m", "p">> >>
    /\ gen.i = 1

----------------------------------------------------------------------------
(* Claims about libcurand *)

Returns == {lib.returned[k] : k \in DOMAIN lib.returned}

FullyBound(i) ==
    \A name \in CtypeFunctions : attribute(lib, i, name) = "wrapped"

(* C27: after any sequence of libcurand(...) constructions, with any       *)
(* override_path and also after constructions that raised while opening    *)
(* the library or binding its functions: every construction that returns   *)
(* yields the same single instance, the library was opened successfully at *)
(* most once, and on the returned instance every declared ctype_function   *)
(* attribute is a status-checking wrapper, which raises CuRandError for    *)
(* every status other than CURAND_STATUS_SUCCESS.                          *)
C27_SingletonFullyBound ==
    /\ Cardinality(Returns) <= 1
    /\ lib.opened <= 1
    /\ \A i \in Returns : FullyBound(i)
    /\ lib.last # <<>> =>
          lib.last[3] = IF lib.last[2] = CURAND_STATUS_SUCCESS
                        THEN "return" ELSE "CuRandError"

====
